---- MODULE Spec2Model ----
(***************************************************************************)
(* RBeditor (src/src/main.rs): the TextEditor application state, the       *)
(* filesystem it reads and writes, and the per-frame handler               *)
(* eframe::App::update.  The variables are the fields of TextEditor, the   *)
(* disk, and what the last frame did.  Every method of TextEditor is an    *)
(* operator from a state s = [self, disk, calls, highlighted_text] to the  *)
(* state after the call; update composes them in the order of the code,    *)
(* and Frame is one call of update on the current state st.                *)
(*                                                                         *)
(* Text is a sequence of bytes ("a", "b", or the byte "0xFF" that is not   *)
(* valid UTF-8).  A path is the sequence of its components; a file name    *)
(* typed by the user is a sequence of tokens: a component, the separator   *)
(* "/" or the blank " ".                                                   *)
(***************************************************************************)
EXTENDS Integers, Sequences, FiniteSets, TLC

VARIABLES
    \* the fields of TextEditor (lines 11-26; font_size and line_spacing in tenths)
    content, file_path, current_dir, dir_contents, new_file_name, show_settings,
    font_size, background_color, text_color, font_family, line_spacing,
    disk,               \* the filesystem
    calls,              \* the method calls of the last frame, with their results
    highlighted_text,   \* what parse_and_highlight returned in the last frame
    frames              \* how many frames have run

vars ==
    <<content, file_path, current_dir, dir_contents, new_file_name, show_settings,
      font_size, background_color, text_color, font_family, line_spacing,
      disk, calls, highlighted_text, frames>>

self ==
    [content |-> content,
     file_path |-> file_path,
     current_dir |-> current_dir,
     dir_contents |-> dir_contents,
     new_file_name |-> new_file_name,
     show_settings |-> show_settings,
     font_size |-> font_size,
     background_color |-> background_color,
     text_color |-> text_color,
     font_family |-> font_family,
     line_spacing |-> line_spacing]

\* The current state, as the methods take it
st == [self |-> self, disk |-> disk, calls |-> calls,
       highlighted_text |-> highlighted_text]

----------------------------------------------------------------------------
(* Bounds *)

\* Longest text the user types into the editor.
MaxTextLen == 1
\* Most calls of the highlighter's callback in one highlighting pass.
MaxCaptures == 1
\* Longest session, in frames.
MaxFrames == 4

----------------------------------------------------------------------------
(* Option<T>: None, or Some(v) *)

None == <<>>
Some(v) == <<v>>
IsSome(o) == o # <<>>
Unwrap(o) == o[1]

----------------------------------------------------------------------------
(* Text *)

Chars == {"a", "b"}
InvalidByte == "0xFF"

TextsOfLen(n) == [1..n -> Chars]
Texts == UNION {TextsOfLen(n) : n \in 0..MaxTextLen}

Range(s) == {s[i] : i \in 1..Len(s)}

\* std::str::from_utf8 on the bytes read
IsUtf8(data) == InvalidByte \notin Range(data)

----------------------------------------------------------------------------
(* Paths *)

IsBlank(t) == t = " "
IsSep(t) == t = "/"

RECURSIVE trim_start(_)
trim_start(s) ==
    IF s # <<>> /\ IsBlank(Head(s)) THEN trim_start(Tail(s)) ELSE s

RECURSIVE trim_end(_)
trim_end(s) ==
    IF s # <<>> /\ IsBlank(s[Len(s)])
    THEN trim_end(SubSeq(s, 1, Len(s) - 1))
    ELSE s

\* str::trim
trim(s) == trim_end(trim_start(s))

\* Path::is_absolute
is_absolute(name) == name # <<>> /\ IsSep(Head(name))

\* Path::components: the names between separators
components(name) == SelectSeq(name, LAMBDA t : ~IsSep(t))

\* PathBuf::join: an absolute argument replaces the base
join(dir, name) ==
    IF is_absolute(name) THEN components(name) ELSE dir \o components(name)

\* Path::parent
parent(p) == SubSeq(p, 1, Len(p) - 1)

IsChildOf(p, dir) == Len(p) = Len(dir) + 1 /\ parent(p) = dir

----------------------------------------------------------------------------
(* The filesystem: a function from the existing paths to their nodes *)

File(data, mode) == [kind |-> "file", data |-> data, mode |-> mode]
Dir(mode) == [kind |-> "dir", mode |-> mode]

\* Path::exists, Path::is_file, Path::is_dir
exists(fs, p) == p \in DOMAIN fs
is_file(fs, p) == exists(fs, p) /\ fs[p].kind = "file"
is_dir(fs, p) == exists(fs, p) /\ fs[p].kind = "dir"

\* Whether opening p for writing (create + truncate) succeeds
WriteOk(fs, p) ==
    IF exists(fs, p)
    THEN fs[p].kind = "file" /\ fs[p].mode = "rw"
    ELSE p # <<>> /\ is_dir(fs, parent(p)) /\ fs[parent(p)].mode = "rw"

\* The fs after a successful fs::write(p, data) or File::create(p)
Written(fs, p, data) ==
    IF exists(fs, p)
    THEN [fs EXCEPT ![p].data = data]
    ELSE (p :> File(data, "rw")) @@ fs

\* Whether fs::read_to_string(p) returns Ok
ReadOk(fs, p) ==
    /\ is_file(fs, p)
    /\ fs[p].mode \in {"rw", "ro"}
    /\ IsUtf8(fs[p].data)

\* Whether fs::read_dir(dir) returns Ok
ReadDirOk(fs, dir) == is_dir(fs, dir) /\ fs[dir].mode \in {"rw", "ro"}

Children(fs, dir) == {p \in DOMAIN fs : IsChildOf(p, dir)}

\* The orders in which a directory's entries may be enumerated
Orders(S) ==
    {s \in [1..Cardinality(S) -> S] :
        \A i, j \in 1..Cardinality(S) : i # j => s[i] # s[j]}

InitialDisk ==
    (<<>> :> Dir("ro"))
    @@ (<<"d">> :> Dir("rw"))
    @@ (<<"d", "a">> :> File(<<"a">>, "rw"))
    @@ (<<"d", "sub">> :> Dir("rw"))
    @@ (<<"d", "sub", "c">> :> File(<<"b">>, "ro"))
    @@ (<<"o">> :> Dir("rw"))
    @@ (<<"o", "bin">> :> File(<<InvalidByte>>, "rw"))
    @@ (<<"u">> :> Dir("none"))
    @@ (<<"u", "h">> :> File(<<"a">>, "rw"))

----------------------------------------------------------------------------
(* TextEditor *)

Colors == {"black", "white"}
Families == {"Monospace", "Proportional"}

new ==
    [content |-> <<>>,
     file_path |-> None,
     current_dir |-> None,
     dir_contents |-> <<>>,
     new_file_name |-> <<>>,
     show_settings |-> FALSE,
     font_size |-> 140,
     background_color |-> "white",
     text_color |-> "black",
     font_family |-> "Monospace",
     line_spacing |-> 15]

Call(op, arg, result) == [op |-> op, arg |-> arg, result |-> result]
Called(s, op, arg, result) == [s EXCEPT !.calls = Append(@, Call(op, arg, result))]

\* save, appending to the file instead of replacing its content
save_appending(s) ==
    IF IsSome(s.self.file_path)
    THEN LET path == Unwrap(s.self.file_path)
             old == IF exists(s.disk, path) THEN s.disk[path].data ELSE <<>>
         IN  IF WriteOk(s.disk, path)
             THEN Called([s EXCEPT !.disk = Written(s.disk, path, old \o s.self.content)],
                         "save", Some(path), "ok")
             ELSE Called(s, "save", Some(path), "error")
    ELSE Called(s, "save", None, "no_path")

save(s) ==
    IF IsSome(s.self.file_path)
    THEN LET path == Unwrap(s.self.file_path)
         IN  IF WriteOk(s.disk, path)
             THEN Called([s EXCEPT !.disk = Written(s.disk, path, s.self.content)],
                         "save", Some(path), "ok")
             ELSE Called(s, "save", Some(path), "error")
    ELSE Called(s, "save", None, "no_path")

\* load, forgetting to record the path
load_keeping_path(s, path) ==
    IF ReadOk(s.disk, path)
    THEN Called([s EXCEPT !.self.content = s.disk[path].data], "load", Some(path), "ok")
    ELSE Called(s, "load", Some(path), "error")

\* load, recording the path before the read
load_setting_path_first(s, path) ==
    IF ReadOk(s.disk, path)
    THEN Called([s EXCEPT !.self.content = s.disk[path].data,
                          !.self.file_path = Some(path)],
                "load", Some(path), "ok")
    ELSE Called([s EXCEPT !.self.file_path = Some(path)], "load", Some(path), "error")

load(s, path) ==
    IF ReadOk(s.disk, path)
    THEN Called([s EXCEPT !.self.content = s.disk[path].data,
                          !.self.file_path = Some(path)],
                "load", Some(path), "ok")
    ELSE Called(s, "load", Some(path), "error")

\* update_dir_contents, without the clear
update_dir_contents_appending(s, order) ==
    IF IsSome(s.self.current_dir) /\ ReadDirOk(s.disk, Unwrap(s.self.current_dir))
    THEN [s EXCEPT !.self.dir_contents = @ \o order]
    ELSE s

\* order: the order in which read_dir yields the entries of current_dir
update_dir_contents(s, order) ==
    IF IsSome(s.self.current_dir) /\ ReadDirOk(s.disk, Unwrap(s.self.current_dir))
    THEN [s EXCEPT !.self.dir_contents = order]
    ELSE [s EXCEPT !.self.dir_contents = <<>>]

open_directory(s, path, order) ==
    update_dir_contents(
        Called([s EXCEPT !.self.current_dir = Some(path)],
               "open_directory", Some(path),
               IF ReadDirOk(s.disk, path) THEN "ok" ELSE "error"),
        order)

\* create_new_file, without the test that the file exists
create_new_file_unchecked(s) ==
    IF IsSome(s.self.current_dir)
    THEN LET new_file_path == join(Unwrap(s.self.current_dir), trim(s.self.new_file_name))
         IN  IF WriteOk(s.disk, new_file_path)
             THEN Called([s EXCEPT !.disk = Written(s.disk, new_file_path, <<>>),
                                   !.self.dir_contents = Append(@, new_file_path),
                                   !.self.new_file_name = <<>>],
                         "create_new_file", Some(new_file_path),
                         IF exists(s.disk, new_file_path) THEN "exists" ELSE "created")
             ELSE Called(s, "create_new_file", Some(new_file_path),
                         IF exists(s.disk, new_file_path) THEN "exists" ELSE "error")
    ELSE s

create_new_file(s) ==
    IF IsSome(s.self.current_dir)
    THEN LET new_file_path == join(Unwrap(s.self.current_dir), trim(s.self.new_file_name))
         IN  IF exists(s.disk, new_file_path)
             THEN Called(s, "create_new_file", Some(new_file_path), "exists")
             ELSE IF WriteOk(s.disk, new_file_path)
                  THEN Called([s EXCEPT !.disk = Written(s.disk, new_file_path, <<>>),
                                        !.self.dir_contents = Append(@, new_file_path),
                                        !.self.new_file_name = <<>>],
                              "create_new_file", Some(new_file_path), "created")
                  ELSE Called(s, "create_new_file", Some(new_file_path), "error")
    ELSE s

\* toggle_settings, only ever showing the panel
toggle_settings_showing(s) ==
    Called([s EXCEPT !.self.show_settings = TRUE], "toggle_settings", None, "ok")

toggle_settings(s) ==
    Called([s EXCEPT !.self.show_settings = ~@], "toggle_settings", None, "ok")

\* The string the highlighter passes to its callback (any string other than
\* a text of the document stands for them all); captures: one per call
CaptureNames == {<<"keyword">>}
CaptureSeqs == UNION {[1..n -> CaptureNames] : n \in 0..MaxCaptures}

Fragment(color, text) == [color |-> color, text |-> text]

\* parse_and_highlight, with last_index advanced past the text
parse_and_highlight_advancing(s, captures) ==
    LET last_index == Len(s.self.content)
        pushed == [i \in 1..Len(captures) |-> Fragment(s.self.text_color, captures[i])]
        highlights ==
            Append(pushed,
                   Fragment(s.self.text_color,
                            SubSeq(s.self.content, last_index + 1, Len(s.self.content))))
    IN  [s EXCEPT !.highlighted_text = highlights]

parse_and_highlight(s, captures) ==
    LET last_index == 0
        pushed == [i \in 1..Len(captures) |-> Fragment(s.self.text_color, captures[i])]
        highlights ==
            Append(pushed,
                   Fragment(s.self.text_color,
                            SubSeq(s.self.content, last_index + 1, Len(s.self.content))))
    IN  [s EXCEPT !.highlighted_text = highlights]

----------------------------------------------------------------------------
(* eframe::App::update: one frame *)

\* What the native dialogs can return: None when the user cancels
PickFolder == {None, Some(<<"d">>), Some(<<"u">>)}
PickFile ==
    {None, Some(<<"d", "a">>), Some(<<"d", "sub", "c">>), Some(<<"o", "bin">>),
     Some(<<"d", "gone">>)}
SaveFile == {None, Some(<<"d", "a">>), Some(<<"d", "sub", "c">>)}

\* What the user types into the "New file" field
NameInputs ==
    {<<" ">>, <<" ", "n">>, <<"a">>, <<"sub", "/", "n">>, <<"/", "o", "/", "n">>}

Event(kind, arg) == [kind |-> kind, arg |-> arg]
NoEvent == Event("none", None)

Keys ==
    {NoEvent, Event("enter", None)}
    \cup {Event("type", n) : n \in NameInputs}
    \cup {Event("edit", t) : t \in Texts}

\* One button per entry of the listing; Enter in the same frame may add one
Clicks(s) ==
    {NoEvent, Event("create", None), Event("settings", None)}
    \cup {Event("entry", Some(i)) : i \in 1..(Len(s.self.dir_contents) + 1)}
    \cup {Event("open_dir", p) : p \in PickFolder}
    \cup {Event("open_file", p) : p \in PickFile}
    \cup {Event("save", p) : p \in SaveFile}
    \cup {Event("text_color", Some(c)) : c \in Colors}
    \cup {Event("font_family", Some(f)) : f \in Families}

\* Lines 171-179: the "New file" field and the Create button
new_file_row(s, key, click) ==
    LET typed == IF key.kind = "type"
                 THEN [s EXCEPT !.self.new_file_name = key.arg]
                 ELSE s
        entered == IF key.kind = "enter" THEN create_new_file(typed) ELSE typed
    IN  IF click.kind = "create" THEN create_new_file(entered) ELSE entered

\* Lines 183-194: the entry whose button was clicked, as file_to_load or dir_to_open
file_to_load(s, click) ==
    IF click.kind = "entry" /\ is_file(s.disk, s.self.dir_contents[Unwrap(click.arg)])
    THEN Some(s.self.dir_contents[Unwrap(click.arg)])
    ELSE None

dir_to_open(s, click) ==
    IF /\ click.kind = "entry"
       /\ ~is_file(s.disk, s.self.dir_contents[Unwrap(click.arg)])
       /\ is_dir(s.disk, s.self.dir_contents[Unwrap(click.arg)])
    THEN Some(s.self.dir_contents[Unwrap(click.arg)])
    ELSE None

\* The directory this frame opens, if any
OpenedDir(s, key, click) ==
    IF IsSome(s.self.current_dir)
    THEN dir_to_open(new_file_row(s, key, click), click)
    ELSE IF click.kind = "open_dir" THEN click.arg ELSE None

\* The orders in which read_dir may yield its entries when this frame opens it
EnumOrders(s, key, click) ==
    LET fs == new_file_row(s, key, click).disk
        dir == OpenedDir(s, key, click)
    IN  IF IsSome(dir) /\ ReadDirOk(fs, Unwrap(dir))
        THEN Orders(Children(fs, Unwrap(dir)))
        ELSE {<<>>}

\* Lines 165-209: the right panel
right_panel(s, key, click, order) ==
    IF IsSome(s.self.current_dir)
    THEN LET row == new_file_row(s, key, click)
             f == file_to_load(row, click)
             d == dir_to_open(row, click)
             loaded == IF IsSome(f) THEN load(row, Unwrap(f)) ELSE row
         IN  IF IsSome(d) THEN open_directory(loaded, Unwrap(d), order) ELSE loaded
    ELSE IF click.kind = "open_dir" /\ IsSome(click.arg)
         THEN open_directory(s, Unwrap(click.arg), order)
         ELSE s

\* Lines 213-217: the Open File button
open_file_button(s, click) ==
    IF click.kind = "open_file" /\ IsSome(click.arg)
    THEN load(s, Unwrap(click.arg))
    ELSE s

\* Lines 218-227: the Save button
save_button(s, click) ==
    IF click.kind = "save"
    THEN LET picked == IF ~IsSome(s.self.file_path) /\ IsSome(click.arg)
                       THEN [s EXCEPT !.self.file_path = click.arg]
                       ELSE s
         IN  IF IsSome(picked.self.file_path) THEN save(picked) ELSE picked
    ELSE s

\* Lines 228-230: the Settings button
settings_button(s, click) ==
    IF click.kind = "settings" THEN toggle_settings(s) ELSE s

\* Lines 165-230: the state in which the highlighter runs
before_highlight(s, key, click, order) ==
    settings_button(
        save_button(
            open_file_button(right_panel(s, key, click, order), click), click), click)

\* text_edit, without the save
text_edit_without_save(s, key) ==
    IF key.kind = "edit"
    THEN Called([s EXCEPT !.self.content = key.arg], "changed", None, "ok")
    ELSE s

\* Lines 243-253: the text editor; a change saves
text_edit(s, key) ==
    IF key.kind = "edit"
    THEN save(Called([s EXCEPT !.self.content = key.arg], "changed", None, "ok"))
    ELSE s

\* Lines 112-138 and 255-257: the settings panel; of its five controls the
\* text color's and the font family's are drawn
show_settings_panel(s, click) ==
    IF ~s.self.show_settings THEN s
    ELSE IF click.kind = "text_color"
         THEN [s EXCEPT !.self.text_color = Unwrap(click.arg)]
         ELSE IF click.kind = "font_family"
              THEN [s EXCEPT !.self.font_family = Unwrap(click.arg)]
              ELSE s

update(s, key, click, order, captures) ==
    show_settings_panel(
        text_edit(
            parse_and_highlight(before_highlight(s, key, click, order), captures),
            key),
        click)

\* The state a frame starts from: the calls listed are those of this frame
Begin(s) == [s EXCEPT !.calls = <<>>]

\* Which events the widgets drawn in this frame can report
Possible(s, key, click) ==
    /\ key.kind \in {"type", "enter"} => IsSome(s.self.current_dir)
    /\ click.kind = "create" => IsSome(s.self.current_dir)
    /\ click.kind = "entry" =>
          /\ IsSome(s.self.current_dir)
          /\ Unwrap(click.arg) <= Len(new_file_row(s, key, click).self.dir_contents)
    /\ click.kind = "open_dir" => ~IsSome(s.self.current_dir)
    /\ click.kind \in {"text_color", "font_family"} => s.self.show_settings
    /\ key.kind = "edit" =>
          \A order \in EnumOrders(s, key, click) :
              key.arg # before_highlight(s, key, click, order).self.content

\* The input of one frame.  The pointer's click goes to one widget and the
\* keyboard to the one that has the focus; the frames drawn here see one of
\* the two.  (update runs the "New file" row first and the text editor last,
\* so a frame that sees both acts on self and disk as two frames in a row:
\* OneEventPerFrameLosesNothing.)
Inputs ==
    {[key |-> k, click |-> NoEvent] : k \in Keys}
    \cup {[key |-> NoEvent, click |-> c] : c \in Clicks(st)}

\* The variables take the values of state s
Becomes(s) ==
    /\ content' = s.self.content
    /\ file_path' = s.self.file_path
    /\ current_dir' = s.self.current_dir
    /\ dir_contents' = s.self.dir_contents
    /\ new_file_name' = s.self.new_file_name
    /\ show_settings' = s.self.show_settings
    /\ font_size' = s.self.font_size
    /\ background_color' = s.self.background_color
    /\ text_color' = s.self.text_color
    /\ font_family' = s.self.font_family
    /\ line_spacing' = s.self.line_spacing
    /\ disk' = s.disk
    /\ calls' = s.calls
    /\ highlighted_text' = s.highlighted_text

FrameWith(key, click) ==
    /\ Possible(st, key, click)
    /\ \E order \in EnumOrders(st, key, click), captures \in CaptureSeqs :
          Becomes(update(Begin(st), key, click, order, captures))

Frame ==
    /\ frames < MaxFrames
    /\ frames' = frames + 1
    /\ \E in \in Inputs : FrameWith(in.key, in.click)

Init ==
    /\ content = new.content
    /\ file_path = new.file_path
    /\ current_dir = new.current_dir
    /\ dir_contents = new.dir_contents
    /\ new_file_name = new.new_file_name
    /\ show_settings = new.show_settings
    /\ font_size = new.font_size
    /\ background_color = new.background_color
    /\ text_color = new.text_color
    /\ font_family = new.font_family
    /\ line_spacing = new.line_spacing
    /\ disk = InitialDisk
    /\ calls = <<>>
    /\ highlighted_text = <<>>
    /\ frames = 0

Next == Frame

Spec == Init /\ [][Next]_vars

----------------------------------------------------------------------------
(* A frame that sees a key and a click leaves self and disk as the two      *)
(* one-event frames do, run in the order in which update handles them.     *)

InOrder(s, key, click, order, captures) ==
    IF key.kind = "edit"
    THEN update(Begin(update(Begin(s), NoEvent, click, order, captures)),
                key, NoEvent, <<>>, captures)
    ELSE update(Begin(update(Begin(s), key, NoEvent, <<>>, captures)),
                NoEvent, click, order, captures)

OneEventPerFrameLosesNothing ==
    \A key \in Keys, click \in Clicks(st) :
        Possible(st, key, click) =>
            \A order \in EnumOrders(st, key, click), captures \in CaptureSeqs :
                LET both == update(Begin(st), key, click, order, captures)
                    two == InOrder(st, key, click, order, captures)
                IN  both.self = two.self /\ both.disk = two.disk

----------------------------------------------------------------------------
(* The claims *)

HasCalls == st.calls # <<>>
LastCall == st.calls[Len(st.calls)]
LastCallIs(op, result) == HasCalls /\ LastCall.op = op /\ LastCall.result = result
Edited(s) == \E i \in 1..Len(s.calls) : s.calls[i].op = "changed"
Entries(s) == Range(s.self.dir_contents)
Occurrences(seq, x) == Cardinality({i \in 1..Len(seq) : seq[i] = x})

RECURSIVE Concat(_)
Concat(fragments) ==
    IF fragments = <<>> THEN <<>>
    ELSE Head(fragments).text \o Concat(Tail(fragments))

\* C1: load(path) of a file readable as text sets the text to the file's
\* content and the source path to path, whatever they were before: for every
\* readable path in every reachable state, and in the state a frame's load
\* leaves.
C1_LoadSetsTextAndPath ==
    /\ \A p \in DOMAIN st.disk :
          ReadOk(st.disk, p) =>
              /\ load(st, p).self.content = st.disk[p].data
              /\ load(st, p).self.file_path = Some(p)
    /\ LastCallIs("load", "ok") =>
          /\ st.self.file_path = LastCall.arg
          /\ st.self.content = st.disk[Unwrap(LastCall.arg)].data

\* A frame has loaded the read-only file over an earlier document.
C1_Witness ==
    /\ frames > 1
    /\ st.calls = <<Call("load", Some(<<"d", "sub", "c">>), "ok")>>
    /\ st.self.file_path = Some(<<"d", "sub", "c">>)
    /\ st.self.content = <<"b">>

\* C2: a load that fails (no such file, a directory, bytes that are not
\* UTF-8) leaves the text and the source path as they were, also when an
\* earlier load had set the path.
C2_FailedLoadChangesNothing ==
    [][ /\ \A p \in DOMAIN st.disk \cup {Unwrap(q) : q \in PickFile \ {None}} :
              ~ReadOk(st.disk, p) =>
                  LET loaded == load(st, p).self
                  IN  /\ loaded.content = st.self.content
                      /\ loaded.file_path = st.self.file_path
        /\ (st'.calls # <<>> /\ st'.calls[Len(st'.calls)] \in
                {Call("load", q, "error") : q \in PickFile \ {None}}) =>
              /\ st'.self.content = st.self.content
              /\ st'.self.file_path = st.self.file_path ]_vars

\* A load has failed on a document that an earlier load had opened.
C2_Witness ==
    /\ LastCallIs("load", "error")
    /\ IsSome(st.self.file_path)
    /\ st.self.file_path # LastCall.arg
    /\ st.self.content # <<>>

\* C3: save() with the source path set and the write succeeding leaves the
\* file holding exactly the text, and leaves the text and the path alone.
C3_SaveWritesExactlyTheText ==
    /\ (IsSome(st.self.file_path) /\ WriteOk(st.disk, Unwrap(st.self.file_path))) =>
          /\ is_file(save(st).disk, Unwrap(st.self.file_path))
          /\ save(st).disk[Unwrap(st.self.file_path)].data = st.self.content
          /\ save(st).self = st.self
    /\ LastCallIs("save", "ok") =>
          /\ st.self.file_path = LastCall.arg
          /\ is_file(st.disk, Unwrap(LastCall.arg))
          /\ st.disk[Unwrap(LastCall.arg)].data = st.self.content

\* The Save button has written "b" over the file that held "a".
C3_Witness ==
    /\ st.calls = <<Call("save", Some(<<"d", "a">>), "ok")>>
    /\ InitialDisk[<<"d", "a">>].data = <<"a">>
    /\ st.self.content = <<"b">>
    /\ st.disk[<<"d", "a">>].data = <<"b">>

\* C4: an edit of the text calls save() in the same frame: with the source
\* path set and the write succeeding the file holds the edited text at the
\* end of the frame; with no source path the edit writes to no file.
C4_EditSavesInTheSameFrame ==
    /\ \A i \in 1..Len(st.calls) :
          st.calls[i].op = "changed" =>
              /\ i < Len(st.calls)
              /\ st.calls[i + 1].op = "save"
              /\ st.calls[i + 1].arg = st.self.file_path
              /\ st.calls[i + 1].result = "ok" =>
                    st.disk[Unwrap(st.self.file_path)].data = st.self.content
              /\ st.calls[i + 1].result = "no_path" <=> ~IsSome(st.self.file_path)
    /\ \A t \in Texts :
          LET edited == text_edit(st, Event("edit", t))
          IN  /\ edited.self.content = t
              /\ ~IsSome(st.self.file_path) => edited.disk = st.disk
              /\ (IsSome(st.self.file_path)
                    /\ WriteOk(st.disk, Unwrap(st.self.file_path))) =>
                    edited.disk[Unwrap(st.self.file_path)].data = t

\* An edit has been written through to the file of the document.
C4_Witness ==
    /\ st.calls = <<Call("changed", None, "ok"), Call("save", Some(<<"d", "a">>), "ok")>>
    /\ st.self.content = <<"b">>
    /\ st.disk[<<"d", "a">>].data = <<"b">>

\* C5 as stated: after open_directory(D), current_dir is D and the entries
\* are exactly the immediate children of D.
C5_EntriesAreTheChildren ==
    LastCallIs("open_directory", "ok") \/ LastCallIs("open_directory", "error") =>
        /\ st.self.current_dir = LastCall.arg
        /\ Entries(st) = Children(st.disk, Unwrap(LastCall.arg))
        /\ Len(st.self.dir_contents) = Cardinality(Entries(st))

\* C5 as amended: after open_directory(D), current_dir is D; when D can be
\* enumerated the entries are exactly its immediate children, each once, and
\* when it cannot the entries are empty.  Nothing of the earlier listing
\* survives either way.
C5_EntriesAreTheChildrenWhenEnumerated ==
    /\ LastCallIs("open_directory", "ok") =>
          /\ st.self.current_dir = LastCall.arg
          /\ ReadDirOk(st.disk, Unwrap(LastCall.arg))
          /\ Entries(st) = Children(st.disk, Unwrap(LastCall.arg))
          /\ Len(st.self.dir_contents) = Cardinality(Entries(st))
    /\ LastCallIs("open_directory", "error") =>
          /\ st.self.current_dir = LastCall.arg
          /\ ~ReadDirOk(st.disk, Unwrap(LastCall.arg))
          /\ st.self.dir_contents = <<>>

\* The subdirectory has been opened from a listing that held a created file.
C5_Witness ==
    /\ LastCallIs("open_directory", "ok")
    /\ st.self.current_dir = Some(<<"d", "sub">>)
    /\ is_file(st.disk, <<"d", "n">>)
    /\ st.self.dir_contents = << <<"d", "sub", "c">> >>

\* The name typed is set and create_new_file called
Create(s, name) == create_new_file([s EXCEPT !.self.new_file_name = name])

\* C6 as stated: create_new_file with a target that does not exist leaves it
\* an empty file that is listed; with a target that exists it changes nothing.
C6_CreateMakesAnEmptyListedFile ==
    LastCallIs("create_new_file", "created") \/ LastCallIs("create_new_file", "error") =>
        /\ is_file(st.disk, Unwrap(LastCall.arg))
        /\ st.disk[Unwrap(LastCall.arg)].data = <<>>
        /\ Unwrap(LastCall.arg) \in Entries(st)

\* C6 as amended: create_new_file with a target that does not exist and can
\* be created leaves it an empty file that is listed once; when the creation
\* fails, nothing is created and nothing listed; the same name again changes
\* neither the disk nor the listing.
C6_CreateMakesAnEmptyListedFileWhenItCan ==
    /\ LastCallIs("create_new_file", "created") =>
          /\ is_file(st.disk, Unwrap(LastCall.arg))
          /\ st.disk[Unwrap(LastCall.arg)].data = <<>>
          /\ Occurrences(st.self.dir_contents, Unwrap(LastCall.arg)) = 1
    /\ LastCallIs("create_new_file", "error") =>
          /\ ~exists(st.disk, Unwrap(LastCall.arg))
          /\ Unwrap(LastCall.arg) \notin Entries(st)
    /\ IsSome(st.self.current_dir) =>
          \A name \in NameInputs \cup {<<>>} :
              LET once == Create(st, name)
                  again == Create(once, name)
                  target == join(Unwrap(st.self.current_dir), trim(name))
              IN  /\ (~exists(st.disk, target) /\ WriteOk(st.disk, target)) =>
                        /\ is_file(once.disk, target)
                        /\ once.disk[target].data = <<>>
                        /\ Occurrences(once.self.dir_contents, target) = 1
                  /\ (~exists(st.disk, target) /\ ~WriteOk(st.disk, target)) =>
                        /\ once.disk = st.disk
                        /\ once.self = [st.self EXCEPT !.new_file_name = name]
                  /\ again.disk = once.disk
                  /\ again.self.dir_contents = once.self.dir_contents

\* A file has been created in the open directory.
C6_Witness ==
    /\ st.calls = <<Call("create_new_file", Some(<<"d", "n">>), "created")>>
    /\ st.self.current_dir = Some(<<"d">>)
    /\ st.disk[<<"d", "n">>].data = <<>>
    /\ <<"d", "n">> \in Entries(st)

\* C7: a save whose write fails leaves the text and the source path as they
\* were when the save was asked for, whether the edit or the Save button
\* asked, the path just picked in the dialog included.
C7_FailedSaveChangesNothing ==
    [][ (st'.calls # <<>> /\ st'.calls[Len(st'.calls)].op = "save"
            /\ st'.calls[Len(st'.calls)].result = "error") =>
            /\ st'.self.file_path = st.self.file_path
            /\ ~Edited(st') => st'.self.content = st.self.content ]_vars

\* C8: the settings panel is hidden at startup; two toggles bring the flag
\* back, from either value; a toggle changes no other field.
C8_ToggleTwiceIsIdentity ==
    [][ /\ frames = 0 => ~st.self.show_settings
        /\ toggle_settings(toggle_settings(st')).self = st'.self
        /\ toggle_settings(st').self.show_settings # st'.self.show_settings
        /\ (st'.calls # <<>> /\ st'.calls[Len(st'.calls)].op = "toggle_settings") =>
              /\ st'.self = [st.self EXCEPT !.show_settings = ~st.self.show_settings]
              /\ st'.disk = st.disk ]_vars

\* The second toggle has hidden the panel again.
C8_Witness ==
    /\ LastCallIs("toggle_settings", "ok")
    /\ frames > 1
    /\ ~st.self.show_settings

\* C9: for every text and every sequence of captures the decorator's output
\* is not empty, its last fragment is the whole text, every fragment has the
\* configured text color, the text is left alone, and the fragments
\* concatenate to the text exactly when no capture was emitted.
C9_TrailingFragmentIsTheWholeText ==
    /\ \A captures \in CaptureSeqs :
          LET after == parse_and_highlight(st, captures)
              h == after.highlighted_text
          IN  /\ Len(h) = Len(captures) + 1
              /\ h[Len(h)].text = st.self.content
              /\ \A i \in 1..Len(h) : h[i].color = st.self.text_color
              /\ after.self = st.self
              /\ Concat(h) = st.self.content <=> captures = <<>>
    /\ frames > 0 =>
          /\ st.highlighted_text # <<>>
          /\ ~Edited(st) =>
                st.highlighted_text[Len(st.highlighted_text)].text = st.self.content

\* A frame has shown a capture's fragment and then the whole text again.
C9_Witness ==
    /\ Len(st.highlighted_text) = 2
    /\ st.highlighted_text[1].text \in CaptureNames
    /\ st.highlighted_text[2].text = st.self.content
    /\ st.self.content # <<>>
    /\ Concat(st.highlighted_text) # st.self.content

\* C10: the listing is empty while no directory is open; otherwise every
\* entry is an immediate child of current_dir that exists, and none is
\* listed twice.
C10_EntriesAreChildrenOfCurrentDir ==
    IF IsSome(st.self.current_dir)
    THEN \A p \in Entries(st) :
            /\ IsChildOf(p, Unwrap(st.self.current_dir))
            /\ exists(st.disk, p)
            /\ Occurrences(st.self.dir_contents, p) = 1
    ELSE st.self.dir_contents = <<>>

====
